---- MODULE Spec2Model ----
(***************************************************************************)
(* The TMDB endpoint descriptors of src/services/TMDB.js.                  *)
(*                                                                         *)
(* Every endpoint of tmdbApi has a `query` function that turns the         *)
(* caller's argument into a request target: a string made by a JavaScript  *)
(* template literal from fixed text, the argument's fields and the         *)
(* module-level constant tmdbApiKey.  The model keeps the targets as       *)
(* strings, built character for character as the template literals build   *)
(* them, and JavaScript values as tagged records, so that truthiness,      *)
(* typeof and string conversion are computed as the language computes them.*)
(***************************************************************************)
EXTENDS Integers, Sequences, FiniteSets, TLC

VARIABLES
    tmdbApiKey,   \* the module-level constant read from process.env
    endpoint,     \* name of the endpoint whose query function ran last
    arg,          \* the argument that call was given
    returned      \* what the call's return statements handed back, in order

vars == <<tmdbApiKey, endpoint, arg, returned>>

----------------------------------------------------------------------------
(* Bounds *)

\* in-range page numbers run from 1 to MaxPage
MaxPage == 2

----------------------------------------------------------------------------
(* JavaScript values *)

Undefined == [kind |-> "undefined"]
Null      == [kind |-> "null"]
NaN       == [kind |-> "nan"]
Str(s)    == [kind |-> "string", s |-> s]
Num(n)    == [kind |-> "number", n |-> n]
Bool(b)   == [kind |-> "boolean", b |-> b]

\* typeof v
TypeOf(v) ==
    CASE v.kind = "undefined" -> "undefined"
      [] v.kind = "null"      -> "object"
      [] v.kind = "nan"       -> "number"
      [] v.kind = "string"    -> "string"
      [] v.kind = "number"    -> "number"
      [] v.kind = "boolean"   -> "boolean"

\* (a variant that takes every defined value for true)
Truthy_definedOnly(v) == v.kind # "undefined"

\* ToBoolean(v), the test an `if (v)` or the left side of `&&` makes
Truthy(v) ==
    CASE v.kind = "undefined" -> FALSE
      [] v.kind = "null"      -> FALSE
      [] v.kind = "nan"       -> FALSE
      [] v.kind = "string"    -> v.s # ""
      [] v.kind = "number"    -> v.n # 0
      [] v.kind = "boolean"   -> v.b

Digit(d) == SubSeq("0123456789", d + 1, d + 1)

RECURSIVE Decimal(_)
Decimal(n) == IF n < 10 THEN Digit(n) ELSE Decimal(n \div 10) \o Digit(n % 10)

\* ToString(v), the conversion a template literal applies to ${v}
ToStr(v) ==
    CASE v.kind = "undefined" -> "undefined"
      [] v.kind = "null"      -> "null"
      [] v.kind = "nan"       -> "NaN"
      [] v.kind = "string"    -> v.s
      [] v.kind = "number"    -> IF v.n < 0 THEN "-" \o Decimal(0 - v.n) ELSE Decimal(v.n)
      [] v.kind = "boolean"   -> IF v.b THEN "true" ELSE "false"

----------------------------------------------------------------------------
(* Inputs *)

\* process.env.REACT_APP_TMDB_KEY: unset, set to nothing, or set
EnvValues == {Undefined, Str(""), Str("k3y")}

\* absent, out of range below and above, and in range
PageValues == {Undefined, Num(0 - 1), Num(0), Num(1000)} \cup {Num(n) : n \in 1..MaxPage}

SearchValues == {Undefined, Str(""), Str("batman"), Str("tom & jerry"), Num(7)}

SelectorValues ==
    {Undefined, Null, Str(""), Str("popular"), Str("top_rated"),
     Num(0), NaN, Num(28), Bool(TRUE)}

IdValues == {Undefined, Num(550), Str("603")}

ListKinds == {Undefined, Str("recommendations"), Str("similar")}

ListNames == {Str("favorite/movies"), Str("watchlist/movies")}

AccountIds == {Undefined, Num(123), Str("123")}

SessionIds == {Undefined, Str("abc")}

----------------------------------------------------------------------------
(* The query functions *)

\* one `return` of a query function: the branch it sits in and the target
Ret(branch, url) == [branch |-> branch, url |-> url]

getGenres_query == "/genre/movie/list?api_key=" \o ToStr(tmdbApiKey)

\* the conditions of getMovies' three `if` statements
isSearch(a) == Truthy(a.searchQuery)

isCategory(a) ==
    Truthy(a.genreIdOrCategoryName) /\ TypeOf(a.genreIdOrCategoryName) = "string"

isGenre(a) ==
    Truthy(a.genreIdOrCategoryName) /\ TypeOf(a.genreIdOrCategoryName) = "number"

\* the template literals of getMovies' four `return` statements
searchTarget(a) ==
    "/search/movie?query=" \o ToStr(a.searchQuery) \o "&page=" \o ToStr(a.page)
        \o "&api_key=" \o ToStr(tmdbApiKey)

\* (a variant that leaves the page out)
categoryTarget_noPage(a) ==
    "/movie/" \o ToStr(a.genreIdOrCategoryName) \o "?api_key=" \o ToStr(tmdbApiKey)

categoryTarget(a) ==
    "/movie/" \o ToStr(a.genreIdOrCategoryName) \o "?page=" \o ToStr(a.page)
        \o "&api_key=" \o ToStr(tmdbApiKey)

genreTarget(a) ==
    "discover/movie?with_genres=" \o ToStr(a.genreIdOrCategoryName)
        \o "&page=" \o ToStr(a.page) \o "&api_key=" \o ToStr(tmdbApiKey)

\* (a variant that always asks for the first page)
popularTarget_firstPage(a) ==
    "/movie/popular?page=1&api_key=" \o ToStr(tmdbApiKey)

popularTarget(a) ==
    "/movie/popular?page=" \o ToStr(a.page) \o "&api_key=" \o ToStr(tmdbApiKey)

\* (a variant with the category test ahead of the search test)
getMovies_stmts_categoryFirst(a) ==
    << [cond |-> isCategory(a), ret |-> Ret("category", categoryTarget(a))],
       [cond |-> isSearch(a),   ret |-> Ret("search", searchTarget(a))],
       [cond |-> isGenre(a),    ret |-> Ret("genre", genreTarget(a))],
       [cond |-> TRUE,          ret |-> Ret("popular", popularTarget(a))] >>

\* the statements of getMovies' query function, top to bottom: each is a
\* return under a condition (the last one under none)
getMovies_stmts(a) ==
    << [cond |-> isSearch(a),   ret |-> Ret("search", searchTarget(a))],
       [cond |-> isCategory(a), ret |-> Ret("category", categoryTarget(a))],
       [cond |-> isGenre(a),    ret |-> Ret("genre", genreTarget(a))],
       [cond |-> TRUE,          ret |-> Ret("popular", popularTarget(a))] >>

\* running statements i.. of a body: the first return reached ends the call
RECURSIVE RunFrom(_, _)
RunFrom(stmts, i) ==
    IF i > Len(stmts) THEN <<>>
    ELSE IF stmts[i].cond THEN <<stmts[i].ret>>
    ELSE RunFrom(stmts, i + 1)

\* (a variant in which a return does not end the call)
RECURSIVE RunThrough(_, _)
RunThrough(stmts, i) ==
    IF i > Len(stmts) THEN <<>>
    ELSE (IF stmts[i].cond THEN <<stmts[i].ret>> ELSE <<>>) \o RunThrough(stmts, i + 1)

getMovies_query_fallThrough(a) == RunThrough(getMovies_stmts(a), 1)

getMovies_query(a) == RunFrom(getMovies_stmts(a), 1)

getMovie_query(id) ==
    "/movie/" \o ToStr(id) \o "?append_to_response=videos,credits&api_key="
        \o ToStr(tmdbApiKey)

getRecommendations_query(a) ==
    "/movie/" \o ToStr(a.movieId) \o "/" \o ToStr(a.list)
        \o "?api_key=" \o ToStr(tmdbApiKey)

\* (a variant that leaves the credential out)
getActorDetails_query_noKey(id) == "person/" \o ToStr(id)

getActorDetails_query(id) ==
    "person/" \o ToStr(id) \o "?api_key=" \o ToStr(tmdbApiKey)

getMoviesByActorId_query(a) ==
    "/discover/movie?with_cast=" \o ToStr(a.id) \o "&page=" \o ToStr(a.page)
        \o "&api_key=" \o ToStr(tmdbApiKey)

\* (a variant with the two path arguments in each other's place)
getList_query_swapped(a) ==
    "/account/" \o ToStr(a.listName) \o "/" \o ToStr(a.accountId)
        \o "?api_key=" \o ToStr(tmdbApiKey)
        \o "&session_id=" \o ToStr(a.sessionId)
        \o "&page=" \o ToStr(a.page)

getList_query(a) ==
    "/account/" \o ToStr(a.accountId) \o "/" \o ToStr(a.listName)
        \o "?api_key=" \o ToStr(tmdbApiKey)
        \o "&session_id=" \o ToStr(a.sessionId)
        \o "&page=" \o ToStr(a.page)

----------------------------------------------------------------------------
(* The state machine: the module is loaded, then queries are resolved *)

Init ==
    /\ tmdbApiKey \in EnvValues
    /\ endpoint = "none"
    /\ arg = <<>>
    /\ returned = <<>>

GetGenres ==
    /\ endpoint' = "getGenres"
    /\ arg' = <<>>
    /\ returned' = <<Ret("genres", getGenres_query)>>
    /\ UNCHANGED tmdbApiKey

GetMovies ==
    \E g \in SelectorValues, p \in PageValues, s \in SearchValues :
        LET a == [genreIdOrCategoryName |-> g, page |-> p, searchQuery |-> s] IN
        /\ endpoint' = "getMovies"
        /\ arg' = a
        /\ returned' = getMovies_query(a)
        /\ UNCHANGED tmdbApiKey

GetMovie ==
    \E id \in IdValues :
        /\ endpoint' = "getMovie"
        /\ arg' = id
        /\ returned' = <<Ret("movie", getMovie_query(id))>>
        /\ UNCHANGED tmdbApiKey

GetRecommendations ==
    \E id \in IdValues, l \in ListKinds :
        LET a == [movieId |-> id, list |-> l] IN
        /\ endpoint' = "getRecommendations"
        /\ arg' = a
        /\ returned' = <<Ret("recommendations", getRecommendations_query(a))>>
        /\ UNCHANGED tmdbApiKey

GetActorDetails ==
    \E id \in IdValues :
        /\ endpoint' = "getActorDetails"
        /\ arg' = id
        /\ returned' = <<Ret("actor", getActorDetails_query(id))>>
        /\ UNCHANGED tmdbApiKey

GetMoviesByActorId ==
    \E id \in IdValues, p \in PageValues :
        LET a == [id |-> id, page |-> p] IN
        /\ endpoint' = "getMoviesByActorId"
        /\ arg' = a
        /\ returned' = <<Ret("moviesByActor", getMoviesByActorId_query(a))>>
        /\ UNCHANGED tmdbApiKey

GetList ==
    \E l \in ListNames, acc \in AccountIds, s \in SessionIds, p \in PageValues :
        LET a == [listName |-> l, accountId |-> acc, sessionId |-> s, page |-> p] IN
        /\ endpoint' = "getList"
        /\ arg' = a
        /\ returned' = <<Ret("list", getList_query(a))>>
        /\ UNCHANGED tmdbApiKey

Next ==
    \/ GetGenres
    \/ GetMovies
    \/ GetMovie
    \/ GetRecommendations
    \/ GetActorDetails
    \/ GetMoviesByActorId
    \/ GetList

Spec == Init /\ [][Next]_vars

----------------------------------------------------------------------------
(* Reading a request target: its path, and the segments of its query *)

\* position of the first character c of s, 0 when there is none
IndexOf(s, c) ==
    IF \E i \in 1..Len(s) : SubSeq(s, i, i) = c
    THEN CHOOSE i \in 1..Len(s) :
            /\ SubSeq(s, i, i) = c
            /\ \A j \in 1..(i - 1) : SubSeq(s, j, j) # c
    ELSE 0

\* what stands before the first "?"
PathOf(url) ==
    LET q == IndexOf(url, "?") IN IF q = 0 THEN url ELSE SubSeq(url, 1, q - 1)

\* what stands after the first "?"
QueryOf(url) ==
    LET q == IndexOf(url, "?") IN IF q = 0 THEN "" ELSE SubSeq(url, q + 1, Len(url))

RECURSIVE Split(_, _)
Split(s, c) ==
    LET i == IndexOf(s, c) IN
    IF i = 0 THEN <<s>>
    ELSE <<SubSeq(s, 1, i - 1)>> \o Split(SubSeq(s, i + 1, Len(s)), c)

\* the key=value segments of the query
Segments(url) ==
    LET parts == Split(QueryOf(url), "&") IN {parts[i] : i \in DOMAIN parts}

RECURSIVE JoinParams(_)
JoinParams(ps) ==
    IF ps = <<>> THEN ""
    ELSE ps[1][1] \o "=" \o ps[1][2]
            \o (IF Len(ps) = 1 THEN "" ELSE "&" \o JoinParams(Tail(ps)))

\* the target that names `path` with the parameters ps, the credential last
RequestTarget(path, ps) ==
    path \o "?" \o JoinParams(ps \o << <<"api_key", ToStr(tmdbApiKey)>> >>)

\* a value a caller left out, or one that counts as left out
Absent(v) ==
    \/ v.kind \in {"undefined", "null", "nan"}
    \/ v.kind = "string" /\ v.s = ""
    \/ v.kind = "number" /\ v.n = 0
    \/ v.kind = "boolean" /\ ~v.b

IsText(v) == v.kind = "string" /\ v.s # ""

IsGenreId(v) == v.kind = "number" /\ v.n # 0

NoSearchText(v) == v = Undefined \/ v = Str("")

OnlyReturn == returned[1]

----------------------------------------------------------------------------
(* The claims *)

\* C1: whenever getMovies is called with a non-empty string searchQuery,
\* whatever genreIdOrCategoryName is, the one target returned is the search
\* target: path /search/movie with query = the search text and page = the
\* page given.
C1_SearchTakesPrecedence ==
    (endpoint = "getMovies" /\ IsText(arg.searchQuery)) =>
        /\ returned = << Ret("search",
                             RequestTarget("/search/movie",
                                 << <<"query", arg.searchQuery.s>>,
                                    <<"page", ToStr(arg.page)>> >>)) >>
        /\ PathOf(OnlyReturn.url) = "/search/movie"

C1_Witness ==
    /\ endpoint = "getMovies"
    /\ arg.searchQuery = Str("batman")
    /\ arg.genreIdOrCategoryName = Str("top_rated")
    /\ arg.page = Num(2)
    /\ tmdbApiKey = Str("k3y")
    /\ OnlyReturn.url = "/search/movie?query=batman&page=2&api_key=k3y"

\* C2: whenever getMovies is called with no search text and a numeric genre
\* id g, the target returned is path /discover/movie, with its leading
\* slash, with with_genres = g and page = the page given.
C2_GenreTarget ==
    (endpoint = "getMovies" /\ NoSearchText(arg.searchQuery)
        /\ IsGenreId(arg.genreIdOrCategoryName)) =>
        returned = << Ret("genre",
                          RequestTarget("/discover/movie",
                              << <<"with_genres", ToStr(arg.genreIdOrCategoryName)>>,
                                 <<"page", ToStr(arg.page)>> >>)) >>

\* C3: whenever getMovies is called with no search text and a non-empty
\* category name c, the target returned is path /movie/c with page = the
\* page given, and it is returned by the category branch, not the genre or
\* popular one.
C3_CategoryTarget ==
    (endpoint = "getMovies" /\ NoSearchText(arg.searchQuery)
        /\ IsText(arg.genreIdOrCategoryName)) =>
        returned = << Ret("category",
                          RequestTarget("/movie/" \o arg.genreIdOrCategoryName.s,
                              << <<"page", ToStr(arg.page)>> >>)) >>

C3_Witness ==
    /\ endpoint = "getMovies"
    /\ arg.searchQuery = Undefined
    /\ arg.genreIdOrCategoryName = Str("top_rated")
    /\ arg.page = Num(2)
    /\ tmdbApiKey = Str("k3y")
    /\ OnlyReturn.url = "/movie/top_rated?page=2&api_key=k3y"

\* C4: whenever getMovies is called with the selector and the search text
\* absent and a numeric page p, in range or not, the target returned is
\* path /movie/popular with page = p exactly as given.
C4_PopularKeepsPage ==
    (endpoint = "getMovies" /\ arg.searchQuery = Undefined
        /\ arg.genreIdOrCategoryName = Undefined /\ arg.page.kind = "number") =>
        /\ returned = << Ret("popular",
                             RequestTarget("/movie/popular",
                                 << <<"page", ToStr(arg.page)>> >>)) >>
        /\ Segments(OnlyReturn.url) =
              {"page=" \o ToStr(arg.page), "api_key=" \o ToStr(tmdbApiKey)}

C4_Witness ==
    /\ endpoint = "getMovies"
    /\ arg.searchQuery = Undefined
    /\ arg.genreIdOrCategoryName = Undefined
    /\ arg.page = Num(1000)
    /\ tmdbApiKey = Str("k3y")
    /\ OnlyReturn.url = "/movie/popular?page=1000&api_key=k3y"

\* C5: every call of getMovies returns exactly one target, from exactly one
\* of the branches search, category, genre and popular, chosen in the order
\* search text, then category name, then numeric genre id, then popular.
C5_ExactlyOneBranch ==
    endpoint = "getMovies" =>
        /\ Len(returned) = 1
        /\ OnlyReturn.branch =
              IF ~Absent(arg.searchQuery) THEN "search"
              ELSE IF IsText(arg.genreIdOrCategoryName) THEN "category"
              ELSE IF IsGenreId(arg.genreIdOrCategoryName) THEN "genre"
              ELSE "popular"
        /\ Len(OnlyReturn.url) > 0

C5_Witness ==
    /\ endpoint = "getMovies"
    /\ arg.searchQuery = Str("")
    /\ arg.genreIdOrCategoryName = Bool(TRUE)
    /\ Len(returned) = 1
    /\ OnlyReturn.branch = "popular"

\* C6: no call ever returns a target built while the credential is absent
\* from the environment (unset or empty); in particular none that holds
\* api_key=undefined.
C6_NoTargetWithoutCredential ==
    \A i \in DOMAIN returned :
        /\ ~Absent(tmdbApiKey)
        /\ "api_key=undefined" \notin Segments(returned[i].url)

\* C7: every target returned by any endpoint carries the module's credential
\* as the parameter api_key, and no call changes the credential.
C7_CredentialCarried ==
    /\ [](\A i \in DOMAIN returned :
            ("api_key=" \o ToStr(tmdbApiKey)) \in Segments(returned[i].url))
    /\ [][tmdbApiKey' = tmdbApiKey]_vars

C7_Witness ==
    /\ endpoint = "getActorDetails"
    /\ tmdbApiKey = Str("k3y")
    /\ arg = Num(550)
    /\ "api_key=k3y" \in Segments(OnlyReturn.url)

\* C8: every call of getActorDetails returns path /person/a for its actor
\* id a, with the leading slash, and no parameter but the credential.
C8_ActorTarget ==
    endpoint = "getActorDetails" =>
        returned = << Ret("actor", RequestTarget("/person/" \o ToStr(arg), <<>>)) >>

\* C9: every call of getList returns path /account/{accountId}/{listName},
\* accountId before listName, with session_id = sessionId and page = page
\* beside the credential, whatever the session id is.
C9_ListTarget ==
    endpoint = "getList" =>
        /\ Len(returned) = 1
        /\ PathOf(OnlyReturn.url) =
              "/account/" \o ToStr(arg.accountId) \o "/" \o ToStr(arg.listName)
        /\ Segments(OnlyReturn.url) =
              {"session_id=" \o ToStr(arg.sessionId),
               "page=" \o ToStr(arg.page),
               "api_key=" \o ToStr(tmdbApiKey)}

C9_Witness ==
    /\ endpoint = "getList"
    /\ arg = [listName |-> Str("favorite/movies"), accountId |-> Str("123"),
              sessionId |-> Str("abc"), page |-> Num(1)]
    /\ tmdbApiKey = Str("k3y")
    /\ OnlyReturn.url = "/account/123/favorite/movies?api_key=k3y&session_id=abc&page=1"

\* C10: in getMovies an empty searchQuery never selects the search branch,
\* and with searchQuery empty or absent and genreIdOrCategoryName absent,
\* empty or 0 the target returned is /movie/popular with the page given; an
\* empty or zero selector never reaches the category or genre branch.
C10_FalsyIsAbsent ==
    endpoint = "getMovies" =>
        /\ arg.searchQuery = Str("") =>
              \A i \in DOMAIN returned : returned[i].branch # "search"
        /\ arg.genreIdOrCategoryName \in {Str(""), Num(0)} =>
              \A i \in DOMAIN returned : returned[i].branch \notin {"category", "genre"}
        /\ (NoSearchText(arg.searchQuery)
              /\ arg.genreIdOrCategoryName \in {Undefined, Str(""), Num(0)}) =>
              returned = << Ret("popular",
                                RequestTarget("/movie/popular",
                                    << <<"page", ToStr(arg.page)>> >>)) >>

C10_Witness ==
    /\ endpoint = "getMovies"
    /\ arg.searchQuery = Str("")
    /\ arg.genreIdOrCategoryName = Num(0)
    /\ arg.page = Num(1)
    /\ tmdbApiKey = Str("k3y")
    /\ OnlyReturn.url = "/movie/popular?page=1&api_key=k3y"

====
